---- MODULE Spec2Model ----
(***************************************************************************)
(* Model of the scaling-law fitting toolkit: scaling/powerlaw/powerlaw.py  *)
(* (logmodel, linmodel, errfunct, fit_model) and scaling/NPL/Murari.py     *)
(* (hfactor, NPL, errfunct, fit_model).                                    *)
(*                                                                         *)
(* Numbers.  A strictly positive real is a power of ten, P10(e) = 10^e     *)
(* with e an integer, so that log10, ** and * are exact: log10(10^e) = e,  *)
(* (10^e)**a = 10^(e*a), 10^e * 10^f = 10^(e+f).  Exponents and logarithms *)
(* are integers.  The statistics of fit_model are IEEE doubles: a rational *)
(* n/d, an infinity or a not-a-number.                                     *)
(*                                                                         *)
(* numpy values are Scalar(x) or Array(<<x1,...,xN>>); a binary operation  *)
(* broadcasts a scalar over an array.                                      *)
(*                                                                         *)
(* scipy.optimize.leastsq is outside the repository.  It is modelled by    *)
(* its interface: it copies the initial point, calls the objective at      *)
(* trial points of the same length, raises TypeError when there are more   *)
(* parameters than residuals, and returns a parameter vector, a covariance *)
(* (None or a two-dimensional array) and the residual vector.              *)
(***************************************************************************)
EXTENDS Integers, Sequences, FiniteSets, TLC

VARIABLES
    bigIntsShared,  \* the runtime gives equal large ints one object (int identity is implementation-defined)
    pc,             \* "idle", "ready", "solving", "stats", "returned", "raised"
    fn,             \* the function being called
    argc,           \* the number of arguments it was given after the parameter list
    param,          \* the caller's parameter / guess list
    xs,             \* the caller's independent-variable arrays
    values,         \* the caller's observed values array
    orig,           \* the three inputs as the caller built them
    trace,          \* the events of the current call, in order
    exc,            \* the exception the call raised, "none" if none
    result,         \* the value the call returned, None if none
    loc             \* fit_model's local variables (solver progress and output, statistics)

vars == <<bigIntsShared, pc, fn, argc, param, xs, values, orig, trace, exc, result, loc>>

\* ---------------------------------------------------------------- bounds
MaxArity == 2      \* small numbers of independent variables: 0..MaxArity
MaxN == 2          \* small numbers of observations: 1..MaxN
MaxIter == 2       \* objective evaluations the solver makes
MaxResid == 1      \* size of a residual the solver reports

\* ------------------------------------------------------------- constants
SmallIntMin == -5      \* ints from SmallIntMin to SmallIntMax are one object each,
SmallIntMax == 256     \* so `is` agrees with == on them (powerlaw.py lines 55, 80, 105, 136)
NplParams == 8         \* [C,a1,a2,a3,a4,a5,a6,a7]
NplVars == 6           \* Ip, R, kappa, P, n, B

\* ------------------------------------------------------ python / numpy values
None == [dim |-> -1, v |-> <<>>]
Scalar(x) == [dim |-> 0, v |-> <<x>>]
Array(s) == [dim |-> 1, v |-> <<>> \o s]
At(x, j) == IF x.dim = 0 THEN x.v[1] ELSE x.v[j]

P10(e) == [p10 |-> e]
Log10(x) == x.p10
Pow(x, a) == P10(x.p10 * a)
Mul(x, y) == P10(x.p10 + y.p10)
TenTo(r) == P10(r)
Add(a, b) == a + b
Sub(a, b) == a - b
Times(a, b) == a * b

\* numpy's elementwise operations; a scalar is broadcast over an array
BothScalar(x, y) == x.dim = 0 /\ y.dim = 0
BLen(x, y) == IF x.dim = 1 THEN Len(x.v) ELSE Len(y.v)

np_log10(x) ==
    IF x.dim = 0 THEN Scalar(Log10(x.v[1]))
    ELSE Array([j \in 1..Len(x.v) |-> Log10(x.v[j])])

ten_pow(x) ==
    IF x.dim = 0 THEN Scalar(TenTo(x.v[1]))
    ELSE Array([j \in 1..Len(x.v) |-> TenTo(x.v[j])])

np_add(x, y) ==
    IF BothScalar(x, y) THEN Scalar(Add(x.v[1], y.v[1]))
    ELSE Array([j \in 1..BLen(x, y) |-> Add(At(x, j), At(y, j))])

np_times(x, y) ==
    IF BothScalar(x, y) THEN Scalar(Times(x.v[1], y.v[1]))
    ELSE Array([j \in 1..BLen(x, y) |-> Times(At(x, j), At(y, j))])

np_sub(x, y) ==
    IF BothScalar(x, y) THEN Scalar(Sub(x.v[1], y.v[1]))
    ELSE Array([j \in 1..BLen(x, y) |-> Sub(At(x, j), At(y, j))])

np_pow(x, y) ==
    IF BothScalar(x, y) THEN Scalar(Pow(x.v[1], y.v[1]))
    ELSE Array([j \in 1..BLen(x, y) |-> Pow(At(x, j), At(y, j))])

np_mul(x, y) ==
    IF BothScalar(x, y) THEN Scalar(Mul(x.v[1], y.v[1]))
    ELSE Array([j \in 1..BLen(x, y) |-> Mul(At(x, j), At(y, j))])

\* `a is not b` on two ints: equal small ints are the same object; whether two
\* equal ints outside the small-int range are one object is up to the runtime.
IsNot(a, b) ==
    ~(a = b /\ ((a >= SmallIntMin /\ a <= SmallIntMax) \/ bigIntsShared))

\* ------------------------------------------------- powerlaw.py: logmodel
\* the local environment of a model function: the parameter list it was handed
\* (the caller's object), its argument tuple and its accumulator
Env(p, a, f, t) == [param |-> p, args |-> a, fitfunc |-> f, trace |-> t, exc |-> "none"]

Raised(e, p, t) == [exc |-> e, ret |-> None, trace |-> t, param |-> p]
Returned(r, p, t) == [exc |-> "none", ret |-> r, trace |-> t, param |-> p]

\* line 60: fitfunc += param[i+1] * np.log10(args[i])
LogStep(env, i) ==
    [env EXCEPT
        !.fitfunc = np_add(env.fitfunc,
                        np_times(Scalar(env.param[i + 1]), np_log10(env.args[i]))),
        !.trace = env.trace \o <<"log10", "mul", "add">>]

\* line 59: the iterations lo..hi of the loop, in order (the first half, then
\* the second; an iteration that raises ends the loop)
RECURSIVE LogLoop(_, _, _)
LogLoop(env, lo, hi) ==
    IF lo > hi THEN env
    ELSE IF lo = hi THEN LogStep(env, lo)
    ELSE LET mid == (lo + hi) \div 2
             first == LogLoop(env, lo, mid)
         IN  IF first.exc # "none" THEN first ELSE LogLoop(first, mid + 1, hi)

\* the check placed after the first logarithm
logmodel_check_late(p, a) ==
    LET nparams == Len(a)
    IN  IF Len(p) = 0
        THEN Raised("IndexError", p, <<"IndexError">>)
        ELSE IF IsNot(nparams, Len(p) - 1)
        THEN Raised("ValueError", p, <<"log10", "ValueError">>)
        ELSE LET env0 == Env(p, a, np_log10(Scalar(p[1])), <<"log10">>)
                 env == LogLoop(env0, 1, nparams)
             IN  Returned(env.fitfunc, env.param, env.trace \o <<"return">>)

logmodel(p, a) ==
    LET nparams == Len(a)
    IN  IF IsNot(nparams, Len(p) - 1)
        THEN Raised("ValueError", p, <<"ValueError">>)
        ELSE LET env0 == Env(p, a, np_log10(Scalar(p[1])), <<"log10">>)
                 env == LogLoop(env0, 1, nparams)
             IN  Returned(env.fitfunc, env.param, env.trace \o <<"return">>)

\* ------------------------------------------------- powerlaw.py: linmodel
\* line 85: fitfunc = fitfunc * (args[i]**param[i+1])
LinStepInPlace(env, i) ==
    LET new == np_mul(env.fitfunc,
                   np_pow(env.args[i], Scalar(env.param[i + 1])))
    IN  [env EXCEPT !.fitfunc = new,
                    !.param[1] = At(new, 1),
                    !.trace = env.trace \o <<"pow", "mul">>]

LinStep(env, i) ==
    [env EXCEPT
        !.fitfunc = np_mul(env.fitfunc,
                        np_pow(env.args[i], Scalar(env.param[i + 1]))),
        !.trace = env.trace \o <<"pow", "mul">>]

\* line 84: the iterations lo..hi of the loop, in order (the first half, then
\* the second; an iteration that raises ends the loop)
RECURSIVE LinLoop(_, _, _)
LinLoop(env, lo, hi) ==
    IF lo > hi THEN env
    ELSE IF lo = hi THEN LinStep(env, lo)
    ELSE LET mid == (lo + hi) \div 2
             first == LinLoop(env, lo, mid)
         IN  IF first.exc # "none" THEN first ELSE LinLoop(first, mid + 1, hi)

linmodel(p, a) ==
    LET nparams == Len(a)
    IN  IF IsNot(nparams, Len(p) - 1)
        THEN Raised("ValueError", p, <<"ValueError">>)
        ELSE LET env0 == Env(p, a, Scalar(p[1]), <<>>)
                 env == LinLoop(env0, 1, nparams)
             IN  Returned(env.fitfunc, env.param, env.trace \o <<"return">>)

\* ------------------------------------------------- powerlaw.py: errfunct
errfunct(p, a) ==
    LET nparams == Len(a)
    IN  IF IsNot(nparams, Len(p))
        THEN Raised("ValueError", p, <<"ValueError">>)
        ELSE IF nparams = 0
        THEN Raised("IndexError", p, <<"IndexError">>)      \* args[-1] of ()
        ELSE LET ydata == a[nparams]
                 rest == SubSeq(a, 1, nparams - 1)
                 lhs == np_log10(ydata)
                 m == logmodel(p, rest)
             IN  IF m.exc # "none"
                 THEN Raised(m.exc, m.param, <<"log10">> \o m.trace)
                 ELSE Returned(np_sub(lhs, m.ret), m.param,
                               <<"log10">> \o m.trace \o <<"sub", "return">>)

\* ------------------------------------------------------ Murari.py: hfactor
\* the part of the suppression term that is no power of ten stays a term:
\* [pow, h1, ratio] stands for pow * (1 + exp(h1 * ratio))**-1
HTerm(nPow, h1, ratio) == [pow |-> nPow, h1 |-> h1, ratio |-> ratio]
Div(x, y) == P10(x.p10 - y.p10)
\* [pre, h] stands for pre * h
NTerm(pre, h) == [pre |-> pre, h |-> h]
\* [tau, model] stands for tau - model
RTerm(tau, model) == [tau |-> tau, model |-> model]

np_div(x, y) ==
    IF BothScalar(x, y) THEN Scalar(Div(x.v[1], y.v[1]))
    ELSE Array([j \in 1..BLen(x, y) |-> Div(At(x, j), At(y, j))])

np_nterm(x, y) ==
    IF BothScalar(x, y) THEN Scalar(NTerm(x.v[1], y.v[1]))
    ELSE Array([j \in 1..BLen(x, y) |-> NTerm(At(x, j), At(y, j))])

np_rterm(x, y) ==
    IF BothScalar(x, y) THEN Scalar(RTerm(x.v[1], y.v[1]))
    ELSE Array([j \in 1..BLen(x, y) |-> RTerm(At(x, j), At(y, j))])

hfactor(hparams, n, B) ==
    IF Len(hparams) < 3
    THEN Raised("IndexError", hparams,
                IF Len(hparams) = 0 THEN <<"IndexError">>
                ELSE IF Len(hparams) = 1 THEN <<"pow", "IndexError">>
                ELSE <<"pow", "div", "IndexError">>)
    ELSE LET nPow == np_pow(n, Scalar(hparams[1]))
             ratio == np_pow(np_div(n, B), Scalar(hparams[3]))
             h == [dim |-> ratio.dim,
                   v |-> [j \in 1..Len(ratio.v) |->
                            HTerm(At(nPow, j), hparams[2], ratio.v[j])]]
         IN  Returned(h, hparams, <<"pow", "div", "pow", "exp", "mul", "return">>)

\* ---------------------------------------------------------- Murari.py: NPL
NPL(params, Ip, R, kappa, P, n, B) ==
    LET hparams == SubSeq(params, 6, Len(params))
        hr == hfactor(hparams, n, B)
    IN  IF hr.exc # "none"
        THEN Raised(hr.exc, params, hr.trace)
        ELSE LET pre == np_mul(np_mul(np_mul(np_mul(Scalar(params[1]),
                              np_pow(Ip, Scalar(params[2]))),
                              np_pow(R, Scalar(params[3]))),
                              np_pow(kappa, Scalar(params[4]))),
                              np_pow(P, Scalar(params[5])))
             IN  Returned(np_nterm(pre, hr.ret), params,
                          hr.trace \o <<"pow", "mul", "return">>)

\* ----------------------------------------------------- Murari.py: errfunct
npl_errfunct(params, Ip, R, kappa, P, n, B, tau) ==
    LET m == NPL(params, Ip, R, kappa, P, n, B)
    IN  IF m.exc # "none"
        THEN Raised(m.exc, m.param, m.trace)
        ELSE Returned(np_rterm(tau, m.ret), m.param, m.trace \o <<"sub", "return">>)

\* ------------------------------------------------------------ IEEE doubles
Fin(n, d) == [k |-> "fin", n |-> n, d |-> d]
Inf(s) == [k |-> "inf", n |-> s, d |-> 0]
NaN == [k |-> "nan", n |-> 0, d |-> 0]
Zero == Fin(0, 1)
Root(n, d) == [k |-> "sqrt", n |-> n, d |-> d]    \* the positive root of n/d

Abs(i) == IF i < 0 THEN -i ELSE i
Sign(i) == IF i < 0 THEN -1 ELSE IF i > 0 THEN 1 ELSE 0

RECURSIVE Gcd(_, _)
Gcd(a, b) == IF b = 0 THEN a ELSE Gcd(b, a % b)

\* n/d in lowest terms with a positive denominator (d # 0)
Ratio(n, d) ==
    LET g == Gcd(Abs(n), Abs(d))
    IN  Fin(Sign(d) * (n \div g), Abs(d) \div g)

\* numpy float64 divided by a python int: no exception on a zero divisor
FDivInt(x, i) ==
    IF x.k = "nan" THEN NaN
    ELSE IF x.k = "inf" THEN (IF i = 0 THEN Inf(x.n) ELSE Inf(x.n * Sign(i)))
    ELSE IF i = 0 THEN (IF x.n = 0 THEN NaN ELSE Inf(Sign(x.n)))
    ELSE Ratio(x.n, x.d * i)

FMul(x, y) ==
    IF x.k = "nan" \/ y.k = "nan" THEN NaN
    ELSE IF x.k = "inf" \/ y.k = "inf"
         THEN (IF Sign(x.n) * Sign(y.n) = 0 THEN NaN ELSE Inf(Sign(x.n) * Sign(y.n)))
    ELSE Ratio(x.n * y.n, x.d * y.d)

FAbs(x) == IF x.k = "fin" THEN Fin(Abs(x.n), x.d) ELSE IF x.k = "inf" THEN Inf(1) ELSE x

\* x**0.5 for x >= 0 or nan
FSqrt(x) == IF x.k = "fin" /\ x.n # 0 THEN Root(x.n, x.d) ELSE x

IsNaN(x) == x.k = "nan"

RECURSIVE SumSq(_, _)
SumSq(s, i) == IF i > Len(s) THEN 0 ELSE s[i] * s[i] + SumSq(s, i + 1)

\* --------------------------------------------------------- covariance
CovNone == [none |-> TRUE, m |-> <<>>]
Matrix(m) == [none |-> FALSE, m |-> m]

\* np.zeros((n,n))
np_zeros(n) == Matrix([i \in 1..n |-> [j \in 1..n |-> Zero]])

\* cov * ss_err_wt
ScaleCov(cov, w) ==
    [i \in 1..Len(cov.m) |-> [j \in 1..Len(cov.m[i]) |-> FMul(cov.m[i][j], w)]]

\* lines 157-160: try: np.absolute(cov_wt[i][i])**0.5  except: 0.0
ErrorAt(cov_wt, i) ==
    IF i <= Len(cov_wt) /\ i <= Len(cov_wt[i])
    THEN FSqrt(FAbs(cov_wt[i][i]))
    ELSE Zero

\* a try around the whole loop instead: the first failure ends the loop
RECURSIVE ErrLoopTryOutside(_, _, _, _)
ErrLoopTryOutside(cov_wt, i, n, errors) ==
    IF i > n THEN errors
    ELSE IF i <= Len(cov_wt) /\ i <= Len(cov_wt[i])
    THEN ErrLoopTryOutside(cov_wt, i + 1, n, Append(errors, FSqrt(FAbs(cov_wt[i][i]))))
    ELSE Append(errors, Zero)

RECURSIVE ErrLoop(_, _, _, _)
ErrLoop(cov_wt, i, n, errors) ==
    IF i > n THEN errors
    ELSE ErrLoop(cov_wt, i + 1, n, Append(errors, ErrorAt(cov_wt, i)))

ParamErrorsTryOutside(cov_wt, p1) == ErrLoopTryOutside(cov_wt, 1, Len(p1), <<>>)

\* lines 155-161: errors = []; for i in range(len(p1)): ...
ParamErrors(cov_wt, p1) == ErrLoop(cov_wt, 1, Len(p1), <<>>)

\* lines 145-146: r2 = 1. - ss_err/ss_tot, ss_tot in log space around the mean;
\* log10 of a mean of powers of ten is no integer, so r2 stays a term
R2(ss_err, vals) == [one_minus |-> ss_err, over_ss_tot_of |-> vals]

\* the locals of fit_model once the solver has returned
Locals(it, p1, cov, fvec) ==
    [iter |-> it, p1 |-> p1, cov_x |-> cov, cov |-> cov, fvec |-> fvec,
     ss_err |-> 0, dof |-> 0, ss_err_wt |-> NaN, cov_wt |-> <<>>, errors |-> <<>>,
     stats |-> FALSE, loop |-> FALSE]
NoLocals == Locals(0, <<>>, CovNone, <<>>)

\* lines 143-163 of powerlaw.py and 151-171 of Murari.py; usesArgs0 tells the
\* two apart: powerlaw divides by len(args[0]) - nguesses, NPL by
\* len(values) - len(guesses)
Statistics(l, guesses, args, vals, usesArgs0) ==
    LET ss_err == SumSq(l.fvec, 1)
        r2 == R2(ss_err, vals)
        cov == IF l.cov.none THEN np_zeros(Len(l.p1)) ELSE l.cov
    IN  IF usesArgs0 /\ Len(args) = 0
        THEN [exc |-> "IndexError", ret |-> None,
              loc |-> [l EXCEPT !.ss_err = ss_err, !.cov = cov, !.stats = TRUE]]
        ELSE LET nobs == IF usesArgs0 THEN Len(args[1].v) ELSE Len(vals.v)
                 dof == nobs - Len(guesses)
                 ss_err_wt == FDivInt(Fin(ss_err, 1), dof)
                 cov_wt == ScaleCov(cov, ss_err_wt)
                 errors == ParamErrors(cov_wt, l.p1)
             IN  [exc |-> "none",
                  ret |-> [p1 |-> l.p1, errors |-> errors, r2 |-> r2, cov |-> cov],
                  loc |-> [l EXCEPT !.ss_err = ss_err, !.cov = cov, !.dof = dof,
                                    !.ss_err_wt = ss_err_wt, !.cov_wt = cov_wt,
                                    !.errors = errors, !.stats = TRUE, !.loop = TRUE]]

\* ------------------------------------------------------------ leastsq
\* trial points: the initial point or a neighbour of the same length
Trials(g) ==
    IF Len(g) = 0 THEN {g}
    ELSE {g, [i \in 1..Len(g) |-> IF i = 1 THEN P10(g[1].p10 + 1) ELSE g[i] + 1]}

CovEntry(i, j) == IF i = j THEN Fin(IF i % 2 = 1 THEN -i ELSE i, 1) ELSE Fin(-1, 1)
CovOf(r) == Matrix([i \in 1..r |-> [j \in 1..r |-> CovEntry(i, j)]])

\* what the solver may hand back as cov_x for n parameters: nothing, an
\* n x n array, or a smaller array
Covs(n) == {CovNone} \cup {CovOf(r) : r \in 0..n}

Fvecs(N) == {[j \in 1..N |-> r] : r \in 0..MaxResid}

\* ------------------------------------------------------------- the caller
\* (len(param), number of independent variables) the caller may build: small
\* ones, the NPL signature, and ones around the end of the small-int range
SmallShapes ==
    {<<np, na>> : np \in 0..(MaxArity + 1), na \in 0..MaxArity}
    \cup {<<NplParams, NplVars>>}
LargeShapes ==
    {<<np, na>> : np \in SmallIntMax..(SmallIntMax + 2),
                  na \in (SmallIntMax - 1)..(SmallIntMax + 1)}

\* numbers of observations: small ones and ones around the NPL parameter count
Ns == (1..MaxN) \cup {NplParams, NplParams + 1}

\* [C, a1, ..., ak]: a positive scale and integer exponents
MkParam(np, s) == [i \in 1..np |-> IF i = 1 THEN P10(s) ELSE 1 + ((i + s) % 2)]
\* strictly positive samples, every sequence of length N
MkArray(N, i, s) == Array([j \in 1..N |-> P10((i + j + s) % 3)])
MkXs(na, N, s) == [i \in 1..na |-> MkArray(N, i, s)]

CanCall == pc \in {"ready", "returned", "raised"}

\* the caller builds the inputs once and then calls the functions on them, in
\* any order and any number of times
Prepare ==
    /\ pc = "idle"
    /\ \E c \in (SmallShapes \X Ns \X (0..1) \X (0..1)) \cup (LargeShapes \X {1} \X {0} \X {0}) :
         LET sh == c[1]  N == c[2]  sa == c[3]  sx == c[4] IN
         /\ param' = MkParam(sh[1], sa)
         /\ xs' = MkXs(sh[2], N, sx)
         /\ values' = MkArray(N, 0, sx)
         /\ orig' = [param |-> param', xs |-> xs', values |-> values']
    /\ pc' = "ready"
    /\ fn' = "none"
    /\ argc' = 0
    /\ trace' = <<>>
    /\ exc' = "none"
    /\ result' = None
    /\ loc' = NoLocals
    /\ UNCHANGED bigIntsShared

\* a call of a function that runs to its end in one step
Finish(name, n, run) ==
    /\ fn' = name
    /\ argc' = n
    /\ pc' = IF run.exc = "none" THEN "returned" ELSE "raised"
    /\ exc' = run.exc
    /\ result' = run.ret
    /\ trace' = run.trace
    /\ param' = run.param
    /\ loc' = NoLocals
    /\ UNCHANGED <<bigIntsShared, xs, values, orig>>

CallLogmodel == CanCall /\ Finish("logmodel", Len(xs), logmodel(param, xs))

CallLinmodel == CanCall /\ Finish("linmodel", Len(xs), linmodel(param, xs))

\* errfunct(param, *xs, values), or errfunct(param, *xs) whose last variable
\* is then taken for the observed data
CallErrfunct ==
    /\ CanCall
    /\ \E withY \in BOOLEAN :
         LET a == IF withY THEN Append(xs, values) ELSE xs
         IN  Finish("errfunct", Len(a), errfunct(param, a))

\* hfactor(params[5:], n, B) on the caller's density and field
CallHfactor ==
    /\ CanCall
    /\ Len(xs) = NplVars
    /\ LET run == hfactor(SubSeq(param, 6, Len(param)), xs[5], xs[6])
       IN  Finish("hfactor", 2, [run EXCEPT !.param = param])

CallNPL ==
    /\ CanCall
    /\ Len(xs) = NplVars
    /\ Finish("NPL", NplVars, NPL(param, xs[1], xs[2], xs[3], xs[4], xs[5], xs[6]))

CallNplErrfunct ==
    /\ CanCall
    /\ Len(xs) = NplVars
    /\ Finish("npl_errfunct", NplVars + 1,
              npl_errfunct(param, xs[1], xs[2], xs[3], xs[4], xs[5], xs[6], values))

\* ------------------------------------------------ powerlaw.py: fit_model
\* lines 134-141: the arity check, then the call of leastsq
FitCheck(guesses, args) ==
    LET nguesses == Len(guesses)
        nparams == Len(args)
    IN  IsNot(nparams, nguesses - 1)

CallFitModel ==
    /\ CanCall
    /\ fn' = "fit_model"
    /\ argc' = Len(xs)
    /\ IF FitCheck(param, xs)
       THEN /\ pc' = "raised"
            /\ exc' = "ValueError"
            /\ trace' = <<"ValueError">>
       ELSE /\ pc' = "solving"
            /\ exc' = "none"
            /\ trace' = <<"leastsq">>
    /\ result' = None
    /\ loc' = NoLocals
    /\ UNCHANGED <<bigIntsShared, param, xs, values, orig>>

\* Murari.py lines 148-149: no check, the call of leastsq
CallNplFitModel ==
    /\ CanCall
    /\ Len(xs) = NplVars
    /\ fn' = "npl_fit_model"
    /\ argc' = NplVars + 1
    /\ pc' = "solving"
    /\ exc' = "none"
    /\ trace' = <<"leastsq">>
    /\ result' = None
    /\ loc' = NoLocals
    /\ UNCHANGED <<bigIntsShared, param, xs, values, orig>>

\* the objective at the point x, with the fixed arguments fit_model gave leastsq
Objective(x) ==
    IF fn = "fit_model"
    THEN errfunct(x, Append(xs, values))
    ELSE npl_errfunct(x, xs[1], xs[2], xs[3], xs[4], xs[5], xs[6], values)

\* leastsq evaluates the objective: first at the initial point, to learn the
\* number of residuals; an exception of the objective leaves leastsq and
\* fit_model; more parameters than residuals is leastsq's TypeError
SolverEval ==
    /\ pc = "solving"
    /\ loc.iter < MaxIter
    /\ \E x \in (IF loc.iter = 0 THEN {param} ELSE Trials(param)) :
         LET run == Objective(x)
         IN  IF run.exc # "none"
             THEN /\ pc' = "raised"
                  /\ exc' = run.exc
                  /\ trace' = trace \o run.trace
                  /\ loc' = loc
             ELSE IF loc.iter = 0 /\ Len(param) > Len(run.ret.v)
             THEN /\ pc' = "raised"
                  /\ exc' = "TypeError"
                  /\ trace' = trace \o run.trace \o <<"TypeError">>
                  /\ loc' = loc
             ELSE /\ pc' = "solving"
                  /\ exc' = "none"
                  /\ trace' = trace \o run.trace
                  /\ loc' = [loc EXCEPT !.iter = loc.iter + 1]
    /\ UNCHANGED <<bigIntsShared, fn, argc, param, xs, values, orig, result>>

\* leastsq returns (p1, cov, infodict, mesg, ier)
SolverReturn ==
    /\ pc = "solving"
    /\ loc.iter >= 1
    /\ \E p1 \in Trials(param), cov \in Covs(Len(param)), fvec \in Fvecs(Len(values.v)) :
         loc' = Locals(loc.iter, p1, cov, fvec)
    /\ pc' = "stats"
    /\ UNCHANGED <<bigIntsShared, fn, argc, param, xs, values, orig, trace, exc, result>>

\* the rest of fit_model: R^2, the covariance, the errors, the result tuple
FitStatistics ==
    /\ pc = "stats"
    /\ LET st == Statistics(loc, param, xs, values, fn = "fit_model")
       IN  /\ pc' = IF st.exc = "none" THEN "returned" ELSE "raised"
           /\ exc' = st.exc
           /\ result' = st.ret
           /\ loc' = st.loc
           /\ trace' = trace \o <<"statistics">> \o
                       (IF st.exc = "none" THEN <<"return">> ELSE <<st.exc>>)
    /\ UNCHANGED <<bigIntsShared, fn, argc, param, xs, values, orig>>

Init ==
    /\ bigIntsShared \in BOOLEAN
    /\ pc = "idle"
    /\ fn = "none"
    /\ argc = 0
    /\ param = <<>>
    /\ xs = <<>>
    /\ values = Array(<<>>)
    /\ orig = [param |-> <<>>, xs |-> <<>>, values |-> Array(<<>>)]
    /\ trace = <<>>
    /\ exc = "none"
    /\ result = None
    /\ loc = NoLocals

Next ==
    \/ Prepare
    \/ CallLogmodel
    \/ CallLinmodel
    \/ CallErrfunct
    \/ CallHfactor
    \/ CallNPL
    \/ CallNplErrfunct
    \/ CallFitModel
    \/ CallNplFitModel
    \/ SolverEval
    \/ SolverReturn
    \/ FitStatistics

Spec == Init /\ [][Next]_vars

\* ================================================================ claims
Finished == pc \in {"returned", "raised"}
Called == pc \in {"solving", "stats", "returned", "raised"}
PowerlawFns == {"logmodel", "linmodel", "errfunct", "fit_model"}
FitFns == {"fit_model", "npl_fit_model"}

\* the number of variable arguments the called power-law function requires
Expected == IF fn = "errfunct" THEN Len(orig.param) ELSE Len(orig.param) - 1
Mismatch == argc # Expected

\* C1: logmodel, linmodel, errfunct and fit_model raise the validation error
\* (ValueError) if and only if the number of variable arguments differs from
\* the required one, whatever the length
C1_ValueErrorIffMismatch ==
    (fn \in PowerlawFns /\ Finished) => ((exc = "ValueError") <=> Mismatch)

\* the same within the small-int range, where `is not` is #
C1_SmallCounts ==
    (fn \in PowerlawFns /\ Finished /\ Len(orig.param) <= SmallIntMax)
        => ((exc = "ValueError") <=> Mismatch)

\* C2: on a call with a mismatching argument count the validation error is
\* the first and only event: no logarithm, power or residual was computed,
\* the solver was not invoked and nothing is returned
C2_MismatchRaisesFirst ==
    (fn \in PowerlawFns /\ Called /\ Mismatch)
        => /\ pc = "raised"
           /\ exc = "ValueError"
           /\ trace = <<"ValueError">>
           /\ result = None
           /\ loc = NoLocals

C2_Witness ==
    /\ fn = "fit_model" /\ pc = "raised" /\ Mismatch
    /\ Len(orig.param) >= 1 /\ argc >= 1

\* C3: with as many observations as guesses (zero degrees of freedom), the
\* error computation of either fit_model does not raise, the result tuple is
\* returned and no entry of the error vector is not-a-number.  Stated for the
\* calls with at least one independent variable, where len(args[0]) exists.
C3_ZeroDofDefined ==
    (fn \in FitFns /\ loc.stats /\ Len(values.v) = Len(orig.param) /\ argc >= 1)
        => /\ pc = "returned"
           /\ \A i \in 1..Len(result.errors) : ~IsNaN(result.errors[i])

\* C4: whenever the solver returns no covariance, either fit_model returns the
\* complete tuple, whose covariance is the p x p zero matrix, p the number of
\* fitted parameters
C4_NoCovarianceGivesZeros ==
    (fn \in FitFns /\ loc.stats /\ loc.cov_x.none)
        => /\ pc = "returned"
           /\ result.cov = np_zeros(Len(loc.p1))
           /\ result.p1 = loc.p1
           /\ Len(result.errors) = Len(loc.p1)

\* the same for the calls with at least one independent variable
C4_WithVariables ==
    (fn \in FitFns /\ loc.stats /\ loc.cov_x.none /\ argc >= 1)
        => /\ pc = "returned"
           /\ result.cov = np_zeros(Len(loc.p1))

\* the substitution itself happens in both fitters
C4_Substituted ==
    (fn \in FitFns /\ loc.stats /\ loc.cov_x.none) => loc.cov = np_zeros(Len(loc.p1))

\* the diagonal entry i of the scaled covariance cannot be read
DiagFails(i) == ~(i <= Len(loc.cov_wt) /\ i <= Len(loc.cov_wt[i]))

\* C5: once fit_model has reached the error loop, the call returns with one
\* error per fitted parameter, in order: 0.0 where reading the diagonal entry
\* failed, and the root of the absolute value of its own scaled diagonal
\* entry everywhere else
C5_FailureIsLocal ==
    (fn \in FitFns /\ loc.loop)
        => /\ pc = "returned"
           /\ Len(result.errors) = Len(loc.p1)
           /\ \A i \in 1..Len(loc.p1) :
                result.errors[i] = IF DiagFails(i) THEN Zero
                                   ELSE FSqrt(FAbs(FMul(loc.cov.m[i][i], loc.ss_err_wt)))

C5_Witness ==
    /\ fn \in FitFns /\ pc = "returned"
    /\ Len(loc.p1) >= 2
    /\ DiagFails(Len(loc.p1))
    /\ result.errors[Len(loc.p1)] = Zero
    /\ ~DiagFails(1)
    /\ result.errors[1] # Zero
    /\ result.errors[1] # NaN

\* C6: for strictly positive inputs and every arity k >= 0, linmodel(params,
\* *xs) equals 10 ** logmodel(params, *xs)
C6_LinEqualsTenToLog ==
    (fn = "linmodel" /\ Finished /\ ~Mismatch)
        => /\ pc = "returned"
           /\ logmodel(orig.param, orig.xs).exc = "none"
           /\ result = ten_pow(logmodel(orig.param, orig.xs).ret)

\* the relation wherever linmodel returns
C6_WhenReturned ==
    (fn = "linmodel" /\ pc = "returned")
        => result = ten_pow(logmodel(orig.param, orig.xs).ret)

\* C8: every call of the power-law fit_model that meets the arity requirement
\* (zero independent variables included) and gets a solution from the solver
\* returns, having scaled the covariance by SSresid / (N - len(guesses)), N
\* the number of observations
C8_ScaledByObservations ==
    (fn = "fit_model" /\ loc.stats /\ ~Mismatch)
        => /\ pc = "returned"
           /\ loc.ss_err_wt = FDivInt(Fin(loc.ss_err, 1), Len(values.v) - Len(orig.param))

\* the NPL fit_model does so
C8_NplScaled ==
    (fn = "npl_fit_model" /\ loc.stats)
        => /\ pc = "returned"
           /\ loc.ss_err_wt = FDivInt(Fin(loc.ss_err, 1), Len(values.v) - Len(orig.param))

\* C9: when errfunct's own check passes, the logmodel call inside it does not
\* raise the validation error; and once fit_model's check has passed, no call
\* of errfunct or logmodel made by the solver raises it
C9_NoValidationErrorAfterCheck ==
    /\ (fn = "errfunct" /\ Finished /\ trace # <<"ValueError">>) => exc # "ValueError"
    /\ (fn = "fit_model" /\ Called /\ trace # <<"ValueError">>) => exc # "ValueError"

\* the first half alone
C9_ErrfunctToLogmodel ==
    (fn = "errfunct" /\ Finished /\ trace # <<"ValueError">>) => exc # "ValueError"

====
